---- MODULE Spec2Model ----
(***************************************************************************)
(* ImmuView: a read-only Facade (a Proxy) over a mutable Backing Value,    *)
(* with a validated internal setter that deep-merges a candidate into it.  *)
(*                                                                         *)
(* The repository holds two revisions of the module that the claims cite:  *)
(*   "ImmuView"  src/src/ImmuView.ts, lines 1-184                          *)
(*   "UnitSpec"  src/src/ImmuView.unit.spec.ts, lines 670-875              *)
(* They differ in deepMerge (arrays merged by index / copied), in          *)
(* createHandler (UnitSpec calls Object.preventExtensions on the target)   *)
(* and in the isExtensible and date traps.  The variable `variant` says    *)
(* which revision a behaviour runs; every other definition is shared.      *)
(*                                                                         *)
(* The heap is a sequence of JavaScript objects (identity = index).  A     *)
(* property value is a record [t, v]: t is the type tag, v the number or   *)
(* the object identity.  Proxies are a second table; a WeakMap cache is    *)
(* identified by the index of the first proxy that was stored in it.       *)
(***************************************************************************)
EXTENDS Integers, Sequences, FiniteSets, TLC

\* ---------------------------------------------------------------- bounds
MaxProxies == 3        \* proxies that can exist in one behaviour
MaxSets == 1           \* internalSet calls in one behaviour
MaxWrites == 1         \* writes that reach an object through a trap-less proxy
MergeFuel == 4         \* nesting depth deepMerge may recurse to
MaxFacades == 4        \* Facades a caller of sequences and methods may hold

\* ---------------------------------------------------------------- values
Variants == {"ImmuView", "UnitSpec"}

Keys == {"0", "1", "a", "b", "d", "f", "l", "m", "n"}
\* for...in order: integer keys ascending, then string keys as created
KeyOrder == <<"0", "1", "a", "b", "d", "f", "l", "m", "n">>
IndexKeys == {"0", "1"}
KeyIndex(k) == IF k = "0" THEN 0 ELSE 1

Absent == [t |-> "absent", v |-> 0]     \* no own property under the key
Undef == [t |-> "undef", v |-> 0]
Num(n) == [t |-> "num", v |-> n]
Ref(o) == [t |-> "ref", v |-> o]
PRef(p) == [t |-> "proxy", v |-> p]     \* a Facade handed to the caller
\* the one function value of the model, function () { return this.a }
ThisA == [t |-> "fn", v |-> 0]
Bound(o) == [t |-> "bound", v |-> o]    \* ThisA.bind(o), o an object
FnProxy == [t |-> "fnproxy", v |-> 0]   \* new Proxy(ThisA, arrayProxyHandler)

NoProps == [k \in Keys |-> Absent]
Props(f) == [k \in Keys |-> IF k \in DOMAIN f THEN f[k] ELSE Absent]

Obj(f) == [kind |-> "object", props |-> Props(f), len |-> 0,
           ext |-> TRUE, proto |-> "Object", time |-> 0]
Arr(f, n) == [kind |-> "array", props |-> Props(f), len |-> n,
              ext |-> TRUE, proto |-> "Array", time |-> 0]
Date(tm) == [kind |-> "date", props |-> NoProps, len |-> 0,
             ext |-> TRUE, proto |-> "Date", time |-> tm]

\* typeof value === 'object' && value !== null
isObject(val) == val.t = "ref"

\* !value : undefined, 0 (and an absent property, which reads undefined)
IsFalsy(val) == val.t \in {"absent", "undef"} \/ (val.t = "num" /\ val.v = 0)

\* obj[prop] on an ordinary object: the own property, else undefined
Lookup(h, o, k) == IF h[o].props[k].t = "absent" THEN Undef ELSE h[o].props[k]

OwnKeys(h, o) == {k \in Keys : h[o].props[k].t # "absent"}

\* ----------------------------------------------------- object literals
\* A literal is a sequence of objects whose references are relative to the
\* literal (1 is its root); Place puts it on the heap after `off` objects.
ShiftVal(val, off) == IF val.t = "ref" THEN Ref(val.v + off) ELSE val
ShiftObj(o, off) == [o EXCEPT !.props = [k \in Keys |-> ShiftVal(o.props[k], off)]]
Place(lit, off) == [i \in 1..Len(lit) |-> ShiftObj(lit[i], off)]

\* { a: 5, n: { a: 10 } }
NestedValue ==
    << Obj([a |-> Num(5), n |-> Ref(2)]), Obj([a |-> Num(10)]) >>

\* { a: 5, l: [1, { a: 2 }] }
ListValue ==
    << Obj([a |-> Num(5), l |-> Ref(2)]),
       Arr([i \in {"0", "1"} |-> IF i = "0" THEN Num(1) ELSE Ref(3)], 2),
       Obj([a |-> Num(2)]) >>

\* { a: 5, d: new Date(1) }
DateValue ==
    << Obj([a |-> Num(5), d |-> Ref(2)]), Date(1) >>

\* const s = { a: 10 };  { a: 5, n: s, m: s }
DiamondValue ==
    << Obj([a |-> Num(5), n |-> Ref(2), m |-> Ref(2)]),
       Obj([a |-> Num(10)]) >>

InitialValues == {NestedValue, ListValue, DateValue, DiamondValue}

\* candidates handed to internalSet
CandRejected == << Obj([a |-> Num(15)]) >>
CandNested == << Obj([a |-> Num(10), n |-> Ref(2)]), Obj([b |-> Num(3)]) >>
CandShortList == << Obj([a |-> Num(10), l |-> Ref(2)]),
                    Arr([i \in {"0"} |-> Num(4)], 1) >>
CandTwoPaths == << Obj([a |-> Num(10), n |-> Ref(2), m |-> Ref(3)]),
                   Obj([a |-> Num(1)]), Obj([a |-> Num(2)]) >>

CandNewKey == << Obj([a |-> Num(10), b |-> Num(1)]) >>
CandOntoNumber == << Obj([a |-> Ref(2)]), Obj([b |-> Num(1)]) >>

Candidates == {CandRejected, CandNested, CandShortList, CandTwoPaths,
               CandNewKey, CandOntoNumber}

\* ------------------------------------------------------------ deepMerge
Ok(h) == [h |-> h, err |-> "none"]
Fail(h, e) == [h |-> h, err |-> e]

IsArray(h, val) == val.t = "ref" /\ h[val.v].kind = "array"
IsDate(h, val) == val.t = "ref" /\ h[val.v].kind = "date"

\* target[key] read inside deepMerge; target may be a (truthy) primitive
ReadKey(h, tv, k) == IF tv.t = "ref" THEN Lookup(h, tv.v, k) ELSE Undef

\* mutant of Assign: a key the target lacks is silently not created
AssignExistingOnly(h, tv, k, val) ==
    IF tv.t # "ref" THEN Fail(h, "TypeError")
    ELSE IF h[tv.v].props[k].t # "absent"
         THEN Ok([h EXCEPT ![tv.v].props[k] = val])
         ELSE Ok(h)

\* mutant of Assign: the assignment drops every other key of the target
AssignAlone(h, tv, k, val) ==
    IF tv.t # "ref" THEN Fail(h, "TypeError")
    ELSE Ok([h EXCEPT ![tv.v].props = [j \in Keys |-> IF j = k THEN val ELSE Absent]])

\* mutant of Assign: a number is added to the number the target holds
AssignAdding(h, tv, k, val) ==
    IF tv.t # "ref" THEN Fail(h, "TypeError")
    ELSE IF h[tv.v].props[k].t = "num" /\ val.t = "num"
         THEN Ok([h EXCEPT ![tv.v].props[k] = Num(h[tv.v].props[k].v + val.v)])
         ELSE Ok([h EXCEPT ![tv.v].props[k] = val])

\* target[key] = val in strict mode code: TypeError on a primitive target
\* and on a new key of a non-extensible object
Assign(h, tv, k, val) ==
    IF tv.t # "ref" THEN Fail(h, "TypeError")
    ELSE LET o == h[tv.v] IN
         IF o.props[k].t # "absent"
         THEN Ok([h EXCEPT ![tv.v].props[k] = val])
         ELSE IF ~o.ext THEN Fail(h, "TypeError")
         ELSE Ok([h EXCEPT ![tv.v].props[k] = val,
                           ![tv.v].len = IF o.kind = "array" /\ k \in IndexKeys
                                            /\ KeyIndex(k) + 1 > o.len
                                         THEN KeyIndex(k) + 1 ELSE o.len])

\* [...source[key]] : a new array holding the source's elements
SpreadCopy(o) ==
    Arr([k \in {i \in IndexKeys : KeyIndex(i) < o.len} |->
            IF o.props[k].t = "absent" THEN Undef ELSE o.props[k]], o.len)

\* the revision in the unit spec file copies a source array before the
\* isObject test; the one in ImmuView.ts has no such branch
CopiesArrays(var) == var = "UnitSpec"

RECURSIVE deepMergeKeys(_, _, _, _, _, _)
\* the body of `for (const key in source)`, for the keys ks still to visit
deepMergeKeys(h, tv, s, ks, fuel, var) ==
    IF ks = <<>> THEN Ok(h)
    ELSE LET k == Head(ks)
             sv == h[s].props[k]
             r == IF sv.t = "absent" THEN Ok(h)
                  ELSE IF CopiesArrays(var) /\ IsArray(h, sv)
                  THEN LET a == Assign(h, tv, k, Ref(Len(h) + 1)) IN
                       IF a.err # "none" THEN a
                       ELSE Ok(Append(a.h, SpreadCopy(h[sv.v])))
                  ELSE IF isObject(sv)
                  THEN LET made == IF IsFalsy(ReadKey(h, tv, k))
                                   THEN LET a == Assign(h, tv, k, Ref(Len(h) + 1)) IN
                                        IF a.err # "none" THEN a
                                        ELSE Ok(Append(a.h, Obj(<<>>)))
                                   ELSE Ok(h)
                       IN IF made.err # "none" THEN made
                          ELSE IF fuel = 0 THEN Fail(made.h, "RangeError")
                          ELSE deepMergeKeys(made.h, ReadKey(made.h, tv, k), sv.v,
                                             KeyOrder, fuel - 1, var)
                  ELSE Assign(h, tv, k, sv)
         IN IF r.err # "none" THEN r
            ELSE deepMergeKeys(r.h, tv, s, Tail(ks), fuel, var)

deepMerge(h, target, source, var) ==
    deepMergeKeys(h, Ref(target), source, KeyOrder, MergeFuel, var)

\* --------------------------------------------------------------- state
VARIABLES
    variant,    \* which revision of the module runs
    options,    \* ReadonlyStateOptions given to readonly()
    heap,       \* the objects; heap[1] is initialValue, the Backing Value
    proxies,    \* every Proxy created so far
    proxy,      \* readonly's local variable `proxy`
    value,      \* the `value` property of the object readonly returned
    sets,       \* internalSet calls made so far
    writes,     \* writes that fell through a proxy to its target so far
    lastOp      \* the last operation and what it returned or raised

vars == <<variant, options, heap, proxies, proxy, value, sets, writes, lastOp>>

Root == 1

\* validator: (value) => value.a <= ValidatorLimit, as in the unit tests
ValidatorLimit == 10
validator(lit) == lit[1].props["a"].t = "num" /\ lit[1].props["a"].v <= ValidatorLimit

\* a validator over two keys:
\* (value) => (value.a ?? 0) + (value.b ?? 0) <= ValidatorLimit
sumValidator(lit) ==
    LET term(k) == IF lit[1].props[k].t = "num" THEN lit[1].props[k].v ELSE 0 IN
    /\ \A k \in {"a", "b"} : lit[1].props[k].t \in {"num", "absent", "undef"}
    /\ term("a") + term("b") <= ValidatorLimit

\* options.validator(value), for the validator the caller configured
Accepts(opt, lit) == IF opt.relational THEN sumValidator(lit) ELSE validator(lit)

\* mutant of ValidationMessage: the configured message is ignored
DefaultMessageOnly(opt) == "Validation failed."

\* options.validationErrorMessage ?? 'Validation failed.'
ValidationMessage(opt) ==
    IF opt.validationErrorMessage THEN "Count exceeds limit" ELSE "Validation failed."

OptionSets ==
    { [validator |-> FALSE, errorHandler |-> FALSE, validationErrorMessage |-> FALSE,
       relational |-> FALSE] }
    \cup [validator : {TRUE}, errorHandler : BOOLEAN, validationErrorMessage : BOOLEAN,
          relational : {FALSE}]

NoAnswer == [ext |-> FALSE, has |-> FALSE, keys |-> {}, proto |-> ""]

NoOp == [op |-> "readonly", p |-> 0, k |-> "", c |-> 0, err |-> "none",
         res |-> Undef, handled |-> 0, msg |-> "", recv |-> Undef,
         ans |-> NoAnswer, steps |-> <<>>]

\* ------------------------------------------------------------- proxies
Exposed == {i \in 1..Len(proxies) : proxies[i].exposed}

\* createHandler: the unit spec revision starts with
\* Object.preventExtensions(target); ImmuView.ts builds the handler inline
createHandler(h, target, var) ==
    IF var = "UnitSpec" THEN [h EXCEPT ![target].ext = FALSE] ELSE h

\* proxies.has(proxyKey) / proxies.get(proxyKey); cache 0 is `new WeakMap()`
CacheHits(ps, target, cache) ==
    {i \in 1..Len(ps) : cache # 0 /\ ps[i].cache = cache
                        /\ ps[i].target = target /\ ps[i].kind = "deep"}

\* mutant of createDeepProxy: a nested container is wrapped along with its
\* parent
createDeepProxyEager(h, ps, target, cache, var, shown) ==
    LET kids == {h[target].props[k].v : k \in {j \in Keys : h[target].props[j].t = "ref"}}
        rec(o) == [kind |-> "deep", target |-> o,
                   cache |-> IF cache = 0 THEN Len(ps) + 1 ELSE cache,
                   exposed |-> shown]
        one == Append(ps, rec(target))
    IN [h |-> h,
        ps |-> IF kids = {} THEN one ELSE Append(one, rec(CHOOSE o \in kids : TRUE)),
        pid |-> Len(ps) + 1]

createDeepProxy(h, ps, target, cache, var, shown) ==
    LET hits == CacheHits(ps, target, cache) IN
    IF hits # {}
    THEN [h |-> h, ps |-> ps, pid |-> CHOOSE i \in hits : TRUE]
    ELSE [h |-> createHandler(h, target, var),
          ps |-> Append(ps, [kind |-> "deep", target |-> target,
                             cache |-> IF cache = 0 THEN Len(ps) + 1 ELSE cache,
                             exposed |-> shown]),
          pid |-> Len(ps) + 1]

\* new Proxy(value, dateProxyHandler) / new Proxy(value, arrayProxyHandler)
NewProxy(h, ps, target, kind) ==
    [h |-> h,
     ps |-> Append(ps, [kind |-> kind, target |-> target, cache |-> 0,
                        exposed |-> TRUE]),
     pid |-> Len(ps) + 1]

Plain(h, ps, val) == [h |-> h, ps |-> ps, pid |-> 0]

\* mutant of GetTrap: nothing is wrapped
GetTrapUnwrapped(h, ps, p, k, var) == Plain(h, ps, Lookup(h, ps[p].target, k))

\* the get trap of the three handlers: what is created, and which proxy
\* (pid, 0 for none) is returned instead of the raw value
GetTrap(h, ps, p, k, var) ==
    LET pr == ps[p]
        val == Lookup(h, pr.target, k)
    IN CASE pr.kind = "deep" ->
              IF IsDate(h, val) THEN NewProxy(h, ps, val.v, "date")
              ELSE IF IsArray(h, val) THEN NewProxy(h, ps, val.v, "array")
              ELSE IF isObject(val)
                   THEN createDeepProxy(h, ps, val.v, pr.cache, var, TRUE)
              ELSE Plain(h, ps, val)
         [] pr.kind = "array" ->
              IF isObject(val) THEN createDeepProxy(h, ps, val.v, 0, var, TRUE)
              ELSE Plain(h, ps, val)
         [] OTHER -> Plain(h, ps, val)

\* what the get trap hands back: the Facade it made, a function-valued
\* property as the handler returns it, or the raw value
Returned(h, pr, k, pid, var) ==
    LET val == Lookup(h, pr.target, k) IN
    IF pid # 0 THEN PRef(pid)
    ELSE IF val.t # "fn" THEN val
    ELSE CASE pr.kind = "deep" ->
                IF h[pr.target].kind = "array" THEN FnProxy
                ELSE Bound(pr.target)                 \* value.bind(obj)
           [] pr.kind = "date" ->
                IF var = "UnitSpec" THEN Bound(pr.target)   \* value.bind(dateObj)
                ELSE val
           [] OTHER -> val

\* ------------------------------------------------------------- actions
InitFrom(values, opts) ==
    /\ variant \in Variants
    /\ options \in opts
    /\ \E iv \in values :
         \* readonly: let proxy = createDeepProxy(initialValue, options)
         LET made == createDeepProxy(iv, <<>>, Root, 0, variant, TRUE) IN
         /\ heap = made.h
         /\ proxies = made.ps
         /\ proxy = made.pid
         /\ value = made.pid      \* return { value: proxy, internalSet }
    /\ sets = 0
    /\ writes = 0
    /\ lastOp = NoOp

InitWith(values) == InitFrom(values, OptionSets)

Init == InitWith(InitialValues)

\* the keys the caller reads: the container's own keys and one it lacks
ReadKeys(h, o) == OwnKeys(h, o) \cup {"b"}

\* reading facade[k] through any Facade the caller holds
GetWithin(p, k, limit) ==
    LET got == GetTrap(heap, proxies, p, k, variant) IN
    /\ Len(got.ps) > Len(proxies) => Cardinality(Exposed) < limit
    /\ heap' = got.h
    /\ proxies' = got.ps
    /\ lastOp' = [NoOp EXCEPT !.op = "get", !.p = p, !.k = k,
                    !.res = Returned(heap, proxies[p], k, got.pid, variant)]
    /\ UNCHANGED <<variant, options, proxy, value, sets, writes>>

Get(p, k) == GetWithin(p, k, MaxProxies)

\* The write-capable traps.  createHandler wires set, deleteProperty,
\* defineProperty, setPrototypeOf and preventExtensions to throwError;
\* dateProxyHandler and arrayProxyHandler define get alone, so on those
\* proxies the operation falls through to the target object.
\* mutant of HasTrap: no handler has a write trap
TrapsNothing(kind, op) == FALSE

HasTrap(kind, op) == kind = "deep"

WriteValue == Num(7)
WriteKeys == {"0"}

\* the ordinary object operation, run on the target
Forward(h, o, op, k) ==
    CASE op \in {"set", "defineProperty"} -> Assign(h, Ref(o), k, WriteValue)
      [] op = "deleteProperty" -> Ok([h EXCEPT ![o].props[k] = Absent])
      [] op = "preventExtensions" -> Ok([h EXCEPT ![o].ext = FALSE])
      [] OTHER -> \* Object.setPrototypeOf(facade, null)
           IF h[o].ext \/ h[o].proto = "null"
           THEN Ok([h EXCEPT ![o].proto = "null"])
           ELSE Fail(h, "TypeError")

Write(p, op, k) ==
    LET r == IF HasTrap(proxies[p].kind, op)
             THEN Fail(heap, "DirectMutationError")      \* throwError
             ELSE Forward(heap, proxies[p].target, op, k)
        forwarded == ~HasTrap(proxies[p].kind, op)
    IN /\ forwarded => writes < MaxWrites
       /\ writes' = IF forwarded THEN writes + 1 ELSE writes
       /\ heap' = r.h
       /\ lastOp' = [NoOp EXCEPT !.op = op, !.p = p, !.k = k, !.err = r.err]
       /\ UNCHANGED <<variant, options, proxies, proxy, value, sets>>

Set(p, k) == Write(p, "set", k)
DeleteProperty(p, k) == Write(p, "deleteProperty", k)
DefineProperty(p, k) == Write(p, "defineProperty", k)
PreventExtensions(p) == Write(p, "preventExtensions", "")
SetPrototypeOf(p) == Write(p, "setPrototypeOf", "")

\* mutant of Rejects: the validator's verdict is ignored
RejectsNothing(opt, lit) == FALSE

\* options?.validator && !options.validator(newValue)
Rejects(opt, lit) == opt.validator /\ ~Accepts(opt, lit)

\* mutant of Routed: the error is thrown although a handler is configured
RoutedNever(opt) == FALSE

\* if (options?.errorHandler) { options.errorHandler(error); return; }
Routed(opt) == opt.errorHandler

\* mutant of mergeInto: the candidate is merged into a clone of initialValue
mergeIntoClone(h, c, var) == deepMerge(Append(h, h[Root]), Len(h) + 1, c, var)

\* deepMerge(initialValue, newValue)
mergeInto(h, c, var) == deepMerge(h, Root, c, var)

\* mutant of Trail: the merge runs before the validator is asked
TrailMergeFirst(opt, lit, mergeErr) ==
    <<"deepMerge">> \o (IF opt.validator THEN <<"validator">> ELSE <<>>)
        \o <<"createDeepProxy">>

\* the calls internalSet makes, in the order of its statements
Trail(opt, lit, mergeErr) ==
    (IF opt.validator THEN <<"validator">> ELSE <<>>)
    \o (IF Rejects(opt, lit)
        THEN IF Routed(opt) THEN <<"errorHandler">> ELSE <<"throw">>
        ELSE <<"deepMerge">>
             \o (IF mergeErr = "none" THEN <<"createDeepProxy">> ELSE <<>>))

\* internalSet(newValue), newValue a fresh literal of the caller
internalSet(lit) ==
    /\ sets < MaxSets
    /\ sets' = sets + 1
    /\ UNCHANGED <<variant, options, value, writes>>
    /\ IF Rejects(options, lit)
       THEN /\ lastOp' = [NoOp EXCEPT
                            !.op = "internalSet",
                            !.steps = Trail(options, lit, "none"),
                            !.msg = ValidationMessage(options),
                            !.handled = IF Routed(options) THEN 1 ELSE 0,
                            !.err = IF Routed(options) THEN "none"
                                    ELSE "ValidationError"]
            /\ UNCHANGED <<heap, proxies, proxy>>
       ELSE LET c == Len(heap) + 1
                m == mergeInto(heap \o Place(lit, Len(heap)), c, variant)
                made == createDeepProxy(m.h, proxies, Root, 0, variant, FALSE)
            IN IF m.err # "none"
               THEN /\ heap' = m.h
                    /\ lastOp' = [NoOp EXCEPT !.op = "internalSet", !.c = c,
                                                !.steps = Trail(options, lit, m.err),
                                                !.err = m.err]
                    /\ UNCHANGED <<proxies, proxy>>
               ELSE /\ heap' = made.h
                    /\ proxies' = made.ps
                    /\ proxy' = made.pid
                    /\ lastOp' = [NoOp EXCEPT !.op = "internalSet", !.c = c,
                                                !.steps = Trail(options, lit, m.err)]

\* The caller reads through the Facades it holds and updates through the
\* handle.
Next ==
    \/ \E p \in Exposed : \E k \in ReadKeys(heap, proxies[p].target) : Get(p, k)
    \/ \E lit \in Candidates : internalSet(lit)

Spec == Init /\ [][Next]_vars

\* The caller reads and attempts every kind of write through the Facades it
\* holds; the handle is never updated.
NextFacade ==
    \/ \E p \in Exposed : \E k \in ReadKeys(heap, proxies[p].target) : Get(p, k)
    \/ \E p \in Exposed, k \in WriteKeys : Set(p, k)
    \/ \E p \in Exposed, k \in WriteKeys : DeleteProperty(p, k)
    \/ \E p \in Exposed, k \in WriteKeys : DefineProperty(p, k)
    \/ \E p \in Exposed : PreventExtensions(p)
    \/ \E p \in Exposed : SetPrototypeOf(p)

SpecFacade == Init /\ [][NextFacade]_vars

\* ------------------------------------- the caller's own references
\* The caller keeps the object it passed to readonly and the candidates it
\* passed to internalSet, and assigns to them directly.
OwnerValues == {NestedValue, ListValue}

\* { a: 10, l: [{ a: 2 }] }
CandElements ==
    << Obj([a |-> Num(10), l |-> Ref(2)]), Arr([i \in {"0"} |-> Ref(3)], 1),
       Obj([a |-> Num(2)]) >>
OwnerCandidates == {CandNested, CandElements}

\* the containers the caller reaches from an object it holds
ReachableFrom(h, o) ==
    LET RECURSIVE grow(_, _)
        grow(seen, n) ==
            IF n = 0 THEN seen
            ELSE grow(seen \cup
                      UNION {{h[q].props[k].v :
                                k \in {j \in Keys : h[q].props[j].t = "ref"}}
                             : q \in seen}, n - 1)
    IN grow({o}, Len(h))

\* v.a = 7, or the same on a container nested in v, v being the object the
\* caller passed as initialValue
OwnerWrite(o) ==
    LET r == Assign(heap, Ref(o), "a", WriteValue) IN
    /\ o \in ReachableFrom(heap, Root)
    /\ writes < MaxWrites
    /\ writes' = writes + 1
    /\ heap' = r.h
    /\ lastOp' = [NoOp EXCEPT !.op = "ownerWrite", !.c = o, !.err = r.err]
    /\ UNCHANGED <<variant, options, proxies, proxy, value, sets>>

\* c.a = 7, or the same on a container nested in c, right after
\* internalSet(c) returned
CandidateWrite(o) ==
    LET r == Assign(heap, Ref(o), "a", WriteValue) IN
    /\ lastOp.op = "internalSet" /\ lastOp.err = "none" /\ lastOp.c # 0
    /\ o \in ReachableFrom(heap, lastOp.c)
    /\ writes < MaxWrites
    /\ writes' = writes + 1
    /\ heap' = r.h
    /\ lastOp' = [NoOp EXCEPT !.op = "candidateWrite", !.c = o, !.err = r.err]
    /\ UNCHANGED <<variant, options, proxies, proxy, value, sets>>

\* readonly(v) without options
InitOwner == InitWith(OwnerValues) /\ ~options.validator

NextOwner ==
    \/ \E p \in Exposed : \E k \in ReadKeys(heap, proxies[p].target) : Get(p, k)
    \/ \E lit \in OwnerCandidates : internalSet(lit)
    \/ \E o \in 1..Len(heap) : OwnerWrite(o)
    \/ \E o \in 1..Len(heap) : CandidateWrite(o)

SpecOwner == InitOwner /\ [][NextOwner]_vars

\* ------------------------------------------- validated handles
\* handles whose validator is configured and accepts the initial value:
\* readonly({ a: 5, b: 5 }, options) and readonly({ a: 5, n: { b: 2 } }, options)
PairValue == << Obj([a |-> Num(5), b |-> Num(5)]) >>
ValidatedValues == {PairValue, NestedValue}

\* { a: 10 }
CandTen == << Obj([a |-> Num(10)]) >>
ValidatedCandidates == {CandTen, CandRejected, CandNewKey, CandNested}

ValidatedOptions ==
    [validator : {TRUE}, errorHandler : BOOLEAN, validationErrorMessage : BOOLEAN,
     relational : BOOLEAN]

InitValidated == InitFrom(ValidatedValues, ValidatedOptions)

NextValidated ==
    \/ \E p \in Exposed : \E k \in ReadKeys(heap, proxies[p].target) : Get(p, k)
    \/ \E lit \in ValidatedCandidates : internalSet(lit)

SpecValidated == InitValidated /\ [][NextValidated]_vars

\* ------------------------------------------------- cyclic graphs
\* const v = { a: 5 }; v.n = v
CyclicValue == << Obj([a |-> Num(5), n |-> Ref(1)]) >>
CyclicValues == {CyclicValue, DiamondValue, NestedValue}

\* const c = { a: 10 }; c.n = c
CandCyclic == << Obj([a |-> Num(10), n |-> Ref(1)]) >>
CyclicCandidates == {CandCyclic, CandNested, CandTwoPaths}

InitCyclic == InitWith(CyclicValues)

NextCyclic ==
    \/ \E p \in Exposed : \E k \in ReadKeys(heap, proxies[p].target) : Get(p, k)
    \/ \E lit \in CyclicCandidates : internalSet(lit)

SpecCyclic == InitCyclic /\ [][NextCyclic]_vars

\* ------------------------------------------------ sequence handles
\* handles over sequences: readonly([]), readonly([1]), readonly([1, 2]),
\* a sequence as a property, and a container shared with a sequence element
SeqEmpty == << Arr(<<>>, 0) >>
SeqOne == << Arr([i \in {"0"} |-> Num(1)], 1) >>
SeqTwo == << Arr([i \in {"0", "1"} |-> IF i = "0" THEN Num(1) ELSE Num(2)], 2) >>
\* const s = { a: 2 };  { n: s, l: [s] }
SharedElement ==
    << Obj([n |-> Ref(3), l |-> Ref(2)]), Arr([i \in {"0"} |-> Ref(3)], 1),
       Obj([a |-> Num(2)]) >>

SeqValues == {SeqEmpty, SeqOne, SeqTwo, ListValue, SharedElement}

CandSeqShort == << Arr([i \in {"0"} |-> Num(4)], 1) >>
CandSeqTwo == << Arr([i \in {"0", "1"} |-> IF i = "0" THEN Num(4) ELSE Num(5)], 2) >>
SeqCandidates == {CandSeqShort, CandSeqTwo}

ARRAY_MUTATING_METHODS ==
    {"push", "pop", "shift", "unshift", "splice", "reverse", "sort"}

\* Whether the built-in, run on a Facade as its receiver, reaches a
\* [[Set]] or [[Delete]] of the receiver.  push, pop, shift, unshift and
\* splice always set length; reverse swaps only from two elements on; sort
\* writes back what it sorted, which an engine may skip for one element.
MutatorWrites(m, len) ==
    CASE m = "reverse" -> {len >= 2}
      [] m = "sort" -> IF len >= 2 THEN {TRUE}
                       ELSE IF len = 1 THEN {TRUE, FALSE} ELSE {FALSE}
      [] OTHER -> {TRUE}

\* facade.m() for a sequence mutator m, the built-in called without
\* arguments
CallArray(p, m) ==
    LET pr == proxies[p] IN
    /\ heap[pr.target].kind = "array"
    /\ \E w \in MutatorWrites(m, heap[pr.target].len) :
         lastOp' = [NoOp EXCEPT
                      !.op = m, !.p = p,
                      !.err = IF pr.kind = "array"
                              THEN "DirectMutationError"    \* return throwError
                              \* deep: new Proxy(value, arrayProxyHandler),
                              \* called on the root Facade; its set and
                              \* deleteProperty traps throw
                              ELSE IF w THEN "DirectMutationError"
                              ELSE "none"]
    /\ UNCHANGED <<variant, options, heap, proxies, proxy, value, sets, writes>>

\* facade.length
Length(p) ==
    /\ heap[proxies[p].target].kind = "array"
    /\ lastOp' = [NoOp EXCEPT !.op = "length", !.p = p,
                                !.res = Num(heap[proxies[p].target].len)]
    /\ UNCHANGED <<variant, options, heap, proxies, proxy, value, sets, writes>>

InitSeq == InitWith(SeqValues)

NextSeq ==
    \/ \E p \in Exposed : \E k \in ReadKeys(heap, proxies[p].target) :
          GetWithin(p, k, MaxFacades)
    \/ \E p \in Exposed, m \in ARRAY_MUTATING_METHODS : CallArray(p, m)
    \/ \E p \in Exposed : Length(p)
    \/ \E lit \in SeqCandidates : internalSet(lit)

SpecSeq == InitSeq /\ [][NextSeq]_vars

\* ------------------------------------- methods and introspection
\* { a: 5, f() { return this.a }, n: { a: 1, n: { a: 2 } } }
ChainValue ==
    << Obj([a |-> Num(5), f |-> ThisA, n |-> Ref(2)]),
       Obj([a |-> Num(1), n |-> Ref(3)]), Obj([a |-> Num(2)]) >>
\* readonly(new Date(1))
RootDate == << Date(1) >>

\* const d = new Date(1); d.n = { a: 1 };  { d }
TaggedDate ==
    << Obj([d |-> Ref(2)]), [Date(1) EXCEPT !.props = Props([n |-> Ref(3)])],
       Obj([a |-> Num(1)]) >>

CallerValues == {ChainValue, DateValue, RootDate, ListValue, TaggedDate}

DATE_MUTATING_METHODS ==
    {"setDate", "setFullYear", "setHours", "setMilliseconds", "setMinutes",
     "setMonth", "setSeconds", "setTime", "setUTCDate", "setUTCDay",
     "setUTCFullYear", "setUTCHours", "setUTCMilliseconds", "setUTCMinutes",
     "setUTCMonth", "setUTCSeconds"}

\* the date methods the caller invokes: facade.getTime(), facade.setTime(2)
DateMethods == {"getTime", "setTime"}
WriteTime == 2

\* facade.m(...) on a Facade over a date.  dateProxyHandler returns
\* throwError for a listed name; otherwise ImmuView.ts returns the built-in
\* as it is, so that it runs with the proxy as receiver and fails its
\* receiver check, while the unit spec revision binds it to the date.  A
\* date wrapped by createDeepProxy (at the root, or a sequence element) gets
\* every method, listed or not, bound to the date.
CallDate(p, m) ==
    LET pr == proxies[p]
        d == pr.target
        viaDateHandler == pr.kind = "date"
        guarded == viaDateHandler /\ m \in DATE_MUTATING_METHODS
        bound == ~viaDateHandler \/ variant = "UnitSpec"
        mutates == ~guarded /\ bound /\ m = "setTime"
    IN /\ heap[d].kind = "date"
       /\ mutates => writes < MaxWrites
       /\ writes' = IF mutates THEN writes + 1 ELSE writes
       /\ heap' = IF mutates THEN [heap EXCEPT ![d].time = WriteTime] ELSE heap
       /\ lastOp' = [NoOp EXCEPT
                       !.op = m, !.p = p,
                       !.err = IF guarded THEN "DirectMutationError"
                               ELSE IF bound THEN "none" ELSE "TypeError",
                       !.recv = IF guarded THEN Undef
                                ELSE IF bound THEN Ref(d) ELSE PRef(p),
                       !.res = IF guarded \/ ~bound THEN Undef
                               ELSE IF mutates THEN Num(WriteTime)
                               ELSE Num(heap[d].time)]
       /\ UNCHANGED <<variant, options, proxies, proxy, value, sets>>

\* facade.f() for a function-valued property f: the function the get trap
\* returned runs with the receiver it was bound to, or else with the Facade
\* it was called on, and returns its receiver's a
Invoke(p, k) ==
    LET pr == proxies[p]
        g == Returned(heap, pr, k, 0, variant)
        got == IF g.t = "bound" THEN Plain(heap, proxies, g)
               ELSE GetTrap(heap, proxies, p, "a", variant)
    IN /\ Lookup(heap, pr.target, k).t = "fn"
       /\ Len(got.ps) > Len(proxies) => Cardinality(Exposed) < MaxFacades
       /\ heap' = got.h
       /\ proxies' = got.ps
       /\ lastOp' = [NoOp EXCEPT
                       !.op = "invoke", !.p = p, !.k = k,
                       !.recv = IF g.t = "bound" THEN Ref(g.v) ELSE PRef(p),
                       !.res = IF g.t = "bound" THEN Lookup(heap, g.v, "a")
                               ELSE Returned(heap, pr, "a", got.pid, variant)]
       /\ UNCHANGED <<variant, options, proxy, value, sets, writes>>

\* facade.at(i) on a Facade over a sequence: the built-in is handed out
\* unbound (arrayProxyHandler) or inside a proxy of its own (createDeepProxy
\* over a sequence) and so runs on the Facade, reading the element through
\* the Facade's get trap
At(p, k) ==
    LET pr == proxies[p]
        got == GetTrap(heap, proxies, p, k, variant)
    IN /\ heap[pr.target].kind = "array"
       /\ Len(got.ps) > Len(proxies) => Cardinality(Exposed) < MaxFacades
       /\ heap' = got.h
       /\ proxies' = got.ps
       /\ lastOp' = [NoOp EXCEPT
                       !.op = "at", !.p = p, !.k = k, !.recv = PRef(p),
                       !.res = Returned(heap, pr, k, got.pid, variant)]
       /\ UNCHANGED <<variant, options, proxy, value, sets, writes>>

\* The introspection traps.  The handler of createDeepProxy defines them;
\* on the other two handlers the query goes to the target.
Answer(p, q, k, ans, e) ==
    /\ lastOp' = [NoOp EXCEPT !.op = q, !.p = p, !.k = k, !.ans = ans, !.err = e]
    /\ UNCHANGED <<variant, options, heap, proxies, proxy, value, sets, writes>>

\* Reflect.ownKeys(obj)
OwnKeysOf(p) ==
    Answer(p, "ownKeys", "",
           [NoAnswer EXCEPT !.keys = OwnKeys(heap, proxies[p].target)], "none")

\* key in target
Has(p, k) ==
    Answer(p, "has", k,
           [NoAnswer EXCEPT !.has = k \in OwnKeys(heap, proxies[p].target)], "none")

\* Reflect.getOwnPropertyDescriptor(target, key): the descriptor's key and
\* whether the property exists
GetOwnPropertyDescriptor(p, k) ==
    Answer(p, "getOwnPropertyDescriptor", k,
           [NoAnswer EXCEPT !.has = k \in OwnKeys(heap, proxies[p].target),
                            !.keys = {k} \cap OwnKeys(heap, proxies[p].target)],
           "none")

\* Object.isExtensible(facade).  ImmuView.ts answers false from the trap;
\* a Proxy whose isExtensible trap disagrees with its target raises
\* TypeError.  The unit spec revision answers Object.isExtensible(target).
IsExtensible(p) ==
    LET pr == proxies[p]
        actual == heap[pr.target].ext
        trapSays == IF pr.kind = "deep" /\ variant = "ImmuView" THEN FALSE
                    ELSE actual
    IN Answer(p, "isExtensible", "", [NoAnswer EXCEPT !.ext = trapSays],
              IF trapSays # actual THEN "TypeError" ELSE "none")

\* Reflect.getPrototypeOf(target)
GetPrototypeOf(p) ==
    Answer(p, "getPrototypeOf", "",
           [NoAnswer EXCEPT !.proto = heap[proxies[p].target].proto], "none")

InitCaller == InitWith(CallerValues)

\* The caller reads, invokes methods, queries and assigns through the
\* Facades it holds.
NextCaller ==
    \/ \E p \in Exposed : \E k \in ReadKeys(heap, proxies[p].target) :
          GetWithin(p, k, MaxFacades)
    \/ \E p \in Exposed, k \in WriteKeys \cup {"a"} : Set(p, k)
    \/ \E p \in Exposed, m \in DateMethods : CallDate(p, m)
    \/ \E p \in Exposed : Invoke(p, "f")
    \/ \E p \in Exposed, k \in IndexKeys : At(p, k)
    \/ \E p \in Exposed : OwnKeysOf(p)
    \/ \E p \in Exposed, k \in {"a", "b"} : Has(p, k)
    \/ \E p \in Exposed, k \in {"a", "b"} : GetOwnPropertyDescriptor(p, k)
    \/ \E p \in Exposed : IsExtensible(p)
    \/ \E p \in Exposed : GetPrototypeOf(p)

SpecCaller == InitCaller /\ [][NextCaller]_vars

\* ----------------------------------------------- deepMerge on its own
\* deepMerge(target, source) called directly, as the unit tests do
ListShapes ==
    { <<>>,
      << Arr([i \in {"0"} |-> Num(1)], 1) >>,
      << Arr([i \in {"0", "1"} |-> IF i = "0" THEN Num(1) ELSE Num(2)], 2) >>,
      << Obj([b |-> Num(1)]) >>,
      << Obj([a |-> Num(3)]) >>,
      << Obj(<<>>) >> }

\* a target that reaches one object by two keys, and a source for both keys
SharedTarget == << Obj([n |-> Ref(2), m |-> Ref(2)]), Obj([a |-> Num(0)]) >>
TwoPathSource == << Obj([n |-> Ref(2), m |-> Ref(3)]),
                    Obj([a |-> Num(1)]), Obj([b |-> Num(2)]) >>

MergeTargets ==
    { SharedTarget } \cup
    { << Obj([a |-> Num(5)]) >> \o Place(sh, 1) : sh \in ListShapes }
    \cup { << Obj([a |-> Num(5), l |-> Ref(2)]) >> \o Place(sh, 1)
             : sh \in ListShapes \ {<<>>} }
    \cup { << Obj([a |-> Num(5), l |-> Num(n)]) >> : n \in {0, 5} }

MergeSources ==
    { TwoPathSource } \cup
    { << Obj([l |-> Ref(2)]) >> \o Place(sh, 1) : sh \in ListShapes \ {<<>>} }
    \cup { << Obj([l |-> Ref(2)]), Arr(<<>>, 0) >>,
           << Obj([a |-> Num(1), l |-> Num(2)]) >>,
           << Obj([b |-> Num(1)]) >> }

\* const x = { a: 1 }; target = { n: x }; source = { m: x, n: { a: 2 } }:
\* the source holds a container of the target
AliasedPair ==
    << Obj([n |-> Ref(2)]), Obj([a |-> Num(1)]),
       Obj([m |-> Ref(2), n |-> Ref(4)]), Obj([a |-> Num(2)]) >>

InitMerge ==
    /\ variant \in Variants
    /\ options = [validator |-> FALSE, errorHandler |-> FALSE,
                  validationErrorMessage |-> FALSE, relational |-> FALSE]
    /\ \/ \E t \in MergeTargets, src \in MergeSources :
            /\ heap = t \o Place(src, Len(t))
            /\ lastOp = [NoOp EXCEPT !.op = "literals", !.c = Len(t) + 1]
       \/ /\ heap = AliasedPair
          /\ lastOp = [NoOp EXCEPT !.op = "literals", !.c = 3]
    /\ proxies = <<>>
    /\ proxy = 0
    /\ value = 0
    /\ sets = 0
    /\ writes = 0

Merge ==
    /\ sets < MaxSets
    /\ sets' = sets + 1
    /\ LET r == deepMerge(heap, Root, lastOp.c, variant) IN
       /\ heap' = r.h
       /\ lastOp' = [NoOp EXCEPT !.op = "deepMerge", !.c = lastOp.c, !.err = r.err]
    /\ UNCHANGED <<variant, options, proxies, proxy, value, writes>>

\* deepMerge(target, source) applied once more to the same arguments
MergeAgain ==
    /\ lastOp.op = "deepMerge"
    /\ lastOp.err = "none"
    /\ LET r == deepMerge(heap, Root, lastOp.c, variant) IN
       /\ heap' = r.h
       /\ lastOp' = [NoOp EXCEPT !.op = "deepMergeAgain", !.c = lastOp.c,
                                 !.err = r.err]
    /\ UNCHANGED <<variant, options, proxies, proxy, value, sets, writes>>

NextMerge == Merge \/ MergeAgain

SpecMerge == InitMerge /\ [][NextMerge]_vars

\* ------------------------------------------------- reading the claims
RefsOf(h, o) == {h[o].props[k].v : k \in {j \in Keys : h[o].props[j].t = "ref"}}

RECURSIVE ReachFrom(_, _, _)
ReachFrom(h, seen, n) ==
    IF n = 0 THEN seen
    ELSE ReachFrom(h, seen \cup UNION {RefsOf(h, o) : o \in seen}, n - 1)

\* the containers of the Backing Value
Reach(h) == ReachFrom(h, {Root}, Len(h))

\* what a container holds, its extensibility aside
Data(o) == [kind |-> o.kind, props |-> o.props, len |-> o.len,
            proto |-> o.proto, time |-> o.time]
BackingData(h) == [o \in Reach(h) |-> Data(h[o])]

\* no container of the Backing Value is reached by two paths
Unshared(h) ==
    /\ \A o \in Reach(h) :
         Cardinality({<<q, k>> \in Reach(h) \X Keys : h[q].props[k] = Ref(o)}) <= 1
    /\ \A q \in Reach(h) : Root \notin RefsOf(h, q)

RECURSIVE LeafMatch(_, _, _, _)
\* every path of the candidate s that ends in a non-container value reads
\* the same value from the container t of the Backing Value
LeafMatch(h, t, s, fuel) ==
    \A k \in OwnKeys(h, s) :
        LET sv == h[s].props[k]
            tv == Lookup(h, t, k)
        IN IF isObject(sv)
           THEN /\ tv.t = "ref"
                /\ fuel > 0
                /\ LeafMatch(h, tv.v, sv.v, fuel - 1)
           ELSE tv = sv

WriteOps == {"set", "deleteProperty", "defineProperty", "preventExtensions",
             "setPrototypeOf"}

Merged == lastOp.op = "internalSet" /\ lastOp.err = "none" /\ lastOp.c # 0
MergedNext == lastOp'.op = "internalSet" /\ lastOp'.err = "none" /\ lastOp'.c # 0

\* C1: every write operation through a Facade the caller reached from
\* handle.value raises DirectMutationError and changes nothing.
C1_MutationRejected ==
    [][lastOp'.op \in WriteOps =>
          /\ lastOp'.err = "DirectMutationError"
          /\ heap' = heap]_vars

\* C2: while internalSet is never called, whatever the caller does through
\* the Facades, the data of the Backing Value stays what it was.
C2_BackingKept == [][BackingData(heap') = BackingData(heap)]_vars

\* C3: after internalSet(c) returned normally, every path of c that ends in
\* a non-container value reads c's value through the handle.
C3_RoundTrip == Merged => LeafMatch(heap, Root, lastOp.c, MergeFuel)

\* C3 as amended: the same, for a Backing Value in which no container is
\* reached by two different paths.
C3_RoundTripUnshared ==
    [][(MergedNext /\ Unshared(heap)) =>
          LeafMatch(heap', Root, lastOp'.c, MergeFuel)]_vars

\* a merge into an unshared Backing Value that created a key it lacked
C3_Witness ==
    /\ Merged
    /\ Unshared(heap)
    /\ heap[Root].props["l"].t = "ref"
    /\ heap[Root].props["n"].t = "ref"
    /\ heap[heap[Root].props["n"].v].props["b"] = Num(3)

AllConfigured ==
    options.validator /\ options.errorHandler /\ options.validationErrorMessage

ReadThrough(h, p, k) == Lookup(h, proxies[p].target, k)

C8_FacadeReplaced == [][MergedNext => value' # value]_vars

\* C9: within one Facade tree the same container is always reached through
\* the same Facade instance, for objects, sequences and dates.
C9_OneFacadePerContainer ==
    \A i \in Exposed, j \in Exposed :
        proxies[i].target = proxies[j].target => i = j

SameElements(h, x, y) ==
    /\ h[x].len = h[y].len
    /\ \A k \in IndexKeys : h[x].props[k] = h[y].props[k]

\* C10: after merge(target, source), every key whose source value is a
\* sequence holds in target a sequence with the source's length and elements.
C10_SequencesReplaced ==
    (lastOp.op = "deepMerge" /\ lastOp.err = "none") =>
        \A k \in OwnKeys(heap, lastOp.c) :
            IsArray(heap, heap[lastOp.c].props[k]) =>
                /\ IsArray(heap, heap[Root].props[k])
                /\ SameElements(heap, heap[Root].props[k].v,
                                heap[lastOp.c].props[k].v)

RECURSIVE MergePairs(_, _, _, _, _)
\* the (target, source) pairs deepMerge(t, s) recurses into, t and its
\* containers being those that existed before the call
MergePairs(h, t, s, fuel, var) ==
    {<<t, s>>} \cup
    UNION { LET sv == h[s].props[k]
                tv == Lookup(h, t, k)
            IN IF /\ isObject(sv)
                  /\ ~(CopiesArrays(var) /\ IsArray(h, sv))
                  /\ tv.t = "ref"
                  /\ fuel > 0
               THEN MergePairs(h, tv.v, sv.v, fuel - 1, var)
               ELSE {}
            : k \in OwnKeys(h, s) }

TargetOnlyKeysKept ==
    \A pr \in MergePairs(heap, Root, lastOp.c, MergeFuel, variant) :
        \A k \in OwnKeys(heap, pr[1]) \ OwnKeys(heap, pr[2]) :
            heap'[pr[1]].props[k] = heap[pr[1]].props[k]

\* C11: merge(target, source) leaves every key present in target and absent
\* from source with its previous value, at every depth the recursion reaches.
C11_TargetOnlyKeysKept == [][lastOp'.op = "deepMerge" => TargetOnlyKeysKept]_vars

\* C11 as amended: the same, for a target in which no container is reached
\* by two different paths.
C11_TargetOnlyKeysKeptUnshared ==
    [][(lastOp'.op = "deepMerge" /\ Unshared(heap)) => TargetOnlyKeysKept]_vars

\* a nested container of the target gained a key and kept the one it had
C11_Witness ==
    /\ lastOp.op = "deepMerge"
    /\ lastOp.err = "none"
    /\ heap[Root].props["a"] = Num(5)
    /\ heap[Root].props["l"] = Ref(2)
    /\ heap[2].props["b"] = Num(1)
    /\ OwnKeys(heap, 2) # {"b"}

\* C12: whenever internalSet raises an error of any kind or returns through
\* the error handler, no key of the Backing Value at any depth has changed.
C12_AllOrNothing ==
    [][(lastOp'.op = "internalSet" /\ (lastOp'.err # "none" \/ lastOp'.handled > 0)) =>
          BackingData(heap') = BackingData(heap)]_vars

\* C15: through a wrapped sequence, at the root or nested, each of push,
\* pop, shift, unshift, splice, reverse, sort raises DirectMutationError and
\* leaves the sequence unchanged; an index or the length reads as on the
\* underlying sequence.
C15_SequenceGuard ==
    [][/\ lastOp'.op \in ARRAY_MUTATING_METHODS =>
             /\ lastOp'.err = "DirectMutationError"
             /\ heap' = heap
       /\ lastOp'.op = "length" =>
             lastOp'.res = Num(heap[proxies[lastOp'.p].target].len)
       /\ (/\ lastOp'.op = "get"
           /\ lastOp'.k \in IndexKeys
           /\ heap[proxies[lastOp'.p].target].kind = "array"
           /\ ~isObject(Lookup(heap, proxies[lastOp'.p].target, lastOp'.k))) =>
             lastOp'.res = Lookup(heap, proxies[lastOp'.p].target, lastOp'.k)]_vars

\* C18: on a handle over a sequence, a successful internalSet(s) with a
\* sequence s leaves the root with exactly the length and elements of s.
C18_RootSequenceReplaced ==
    [][(/\ MergedNext
        /\ heap[Root].kind = "array"
        /\ heap'[lastOp'.c].kind = "array") =>
          SameElements(heap', Root, lastOp'.c)]_vars

IsElement(h, o) ==
    \E q \in 1..Len(h) : h[q].kind = "array" /\ \E k \in IndexKeys : h[q].props[k] = Ref(o)

\* C20: a container reached through a sequence index has one Facade in the
\* tree, whichever read or path reached it.
C20_ElementFacadeShared ==
    \A i \in Exposed, j \in Exposed :
        (/\ proxies[i].kind = "deep" /\ proxies[j].kind = "deep"
         /\ proxies[i].target = proxies[j].target
         /\ IsElement(heap, proxies[i].target)) => i = j

ReadDirectly == Lookup(heap, proxies[lastOp'.p].target, lastOp'.k)
WrapsRead ==
    /\ lastOp'.res.t = "proxy"
    /\ proxies'[lastOp'.res.v].target = ReadDirectly.v

\* C13: a read through a Facade returns the value read directly when it is
\* not a container, and a Facade over the same container when it is one.
C13_ReadThrough ==
    [][lastOp'.op = "get" =>
          IF isObject(ReadDirectly) THEN WrapsRead
          ELSE lastOp'.res = ReadDirectly]_vars

\* C13 as amended: the same for reads through the Facade of a plain object
\* or a sequence, of a value that is not a function.
C13_ReadThroughData ==
    [][(/\ lastOp'.op = "get"
        /\ proxies[lastOp'.p].kind \in {"deep", "array"}
        /\ heap[proxies[lastOp'.p].target].kind # "date"
        /\ ReadDirectly.t # "fn") =>
          IF isObject(ReadDirectly) THEN WrapsRead
          ELSE lastOp'.res = ReadDirectly]_vars

\* the Facade of the innermost object of the chain was handed out
C13_Witness ==
    /\ lastOp.op = "get"
    /\ heap[Root].props["f"] = ThisA
    /\ lastOp.res.t = "proxy"
    /\ proxies[lastOp.res.v].target = 3
    /\ proxies[lastOp.p].target = 2

\* C14: through a wrapped date a method of the Mutator Table raises
\* DirectMutationError and leaves the date unchanged, any other method
\* returns what it returns on the date, and a non-method property reads as
\* on the date.
C14_DateGuard ==
    [][/\ lastOp'.op \in DateMethods \cap DATE_MUTATING_METHODS =>
             /\ lastOp'.err = "DirectMutationError"
             /\ heap' = heap
       /\ lastOp'.op \in DateMethods \ DATE_MUTATING_METHODS =>
             /\ lastOp'.err = "none"
             /\ lastOp'.res = Num(heap[proxies[lastOp'.p].target].time)
       /\ (/\ lastOp'.op = "get"
           /\ proxies[lastOp'.p].kind = "date") =>
             lastOp'.res = ReadDirectly]_vars

\* C16: a function-valued property read through a Facade and invoked runs
\* with the underlying object as receiver and returns what the direct call
\* returns.
C16_OriginalReceiver ==
    [][lastOp'.op \in {"invoke", "at"} \cup (DateMethods \ DATE_MUTATING_METHODS) =>
          /\ lastOp'.err = "none"
          /\ lastOp'.recv = Ref(proxies[lastOp'.p].target)
          /\ lastOp'.res =
                CASE lastOp'.op = "invoke" ->
                       Lookup(heap, proxies[lastOp'.p].target, "a")
                  [] lastOp'.op = "at" -> ReadDirectly
                  [] OTHER -> Num(heap[proxies[lastOp'.p].target].time)]_vars

Queries == {"ownKeys", "has", "getOwnPropertyDescriptor", "isExtensible",
            "getPrototypeOf"}

\* C17: key enumeration, key existence, descriptor lookup, the
\* extensibility query and the prototype query on a Facade answer as the
\* same query on its container.
C17_IntrospectionFaithful ==
    [][lastOp'.op \in Queries =>
          LET c == heap[proxies[lastOp'.p].target]
              keys == OwnKeys(heap, proxies[lastOp'.p].target)
          IN /\ lastOp'.err = "none"
             /\ lastOp'.op = "ownKeys" => lastOp'.ans.keys = keys
             /\ lastOp'.op = "has" => lastOp'.ans.has = (lastOp'.k \in keys)
             /\ lastOp'.op = "getOwnPropertyDescriptor" =>
                   lastOp'.ans.keys = {lastOp'.k} \cap keys
             /\ lastOp'.op = "isExtensible" => lastOp'.ans.ext = c.ext
             /\ lastOp'.op = "getPrototypeOf" => lastOp'.ans.proto = c.proto]_vars

\* C19: assigning to a property of a plain object reached through
\* successive Facade reads, at whatever depth, raises DirectMutationError
\* and changes nothing.
C19_NestedAssignRejected ==
    [][(/\ lastOp'.op = "set"
        /\ proxies[lastOp'.p].kind = "deep"
        /\ heap[proxies[lastOp'.p].target].kind = "object") =>
          /\ lastOp'.err = "DirectMutationError"
          /\ heap' = heap]_vars

\* the assignment was attempted on the leaf of the chain, three levels down
C19_Witness ==
    /\ lastOp.op = "set"
    /\ lastOp.k = "a"
    /\ lastOp.err = "DirectMutationError"
    /\ heap[Root].props["f"] = ThisA
    /\ proxies[lastOp.p].target = 3
    /\ heap[3].props["a"] = Num(2)

\* C21: after merge(target, source), every key of source whose value is a
\* non-sequence container holds in target a container with every entry of
\* the source's, whatever target held at that key before.
C21_ContainerEnsured ==
    (lastOp.op = "deepMerge" /\ lastOp.err = "none") =>
        \A k \in OwnKeys(heap, lastOp.c) :
            LET sv == heap[lastOp.c].props[k]
                tv == heap[Root].props[k]
            IN (isObject(sv) /\ ~IsArray(heap, sv)) =>
                  /\ tv.t = "ref"
                  /\ LeafMatch(heap, tv.v, sv.v, MergeFuel)

Count(seq, x) == Cardinality({i \in 1..Len(seq) : seq[i] = x})
Position(seq, x) == CHOOSE i \in 1..Len(seq) : seq[i] = x

C23_RunsToCompletion ==
    lastOp.op \in {"internalSet", "get"} => lastOp.err # "RangeError"

NewProxies == (Len(proxies) + 1)..Len(proxies')

\* C24: directly after readonly(v) only the root has a Facade; a read
\* creates no Facade but that of the container it returns; internalSet
\* creates none for a nested container.
C24_LazyFacades ==
    /\ [](lastOp.op = "readonly" =>
            Len(proxies) = 1 /\ proxies[1].target = Root)
    /\ [][/\ lastOp'.op = "get" =>
               /\ Cardinality(NewProxies) <= 1
               /\ \A i \in NewProxies :
                     /\ isObject(ReadDirectly)
                     /\ proxies'[i].target = ReadDirectly.v
          /\ lastOp'.op = "internalSet" =>
               \A i \in NewProxies : proxies'[i].target = Root]_vars

\* after an update, the first read of n created the Facade of the nested
\* container
C24_Witness ==
    /\ lastOp.op = "get"
    /\ lastOp.k = "n"
    /\ sets > 0
    /\ lastOp.res = PRef(Len(proxies))
    /\ proxies[Len(proxies)].target # Root
    /\ Cardinality({i \in 1..Len(proxies) : proxies[i].target # Root}) = 1

\* C25: a write the caller makes through its own reference to the object
\* it passed as initialValue changes nothing that is read through
\* handle.value, and no read hands out an unwrapped container.
C25_BackingOwned ==
    [][/\ lastOp'.op = "ownerWrite" => BackingData(heap') = BackingData(heap)
       /\ lastOp'.op = "get" => lastOp'.res.t # "ref"]_vars

\* C27: a mutation of c or of a container nested in c, made after
\* internalSet(c) returned, changes nothing in the Backing Value.
C27_CandidateDetached ==
    [][lastOp'.op = "candidateWrite" => BackingData(heap') = BackingData(heap)]_vars

\* C26: with a validator configured that accepts the initial value, the
\* Backing Value (the merged result) satisfies the validator after any
\* sequence of internalSet calls, accepted or rejected.
C26_ValidatorInvariant == options.validator => Accepts(options, heap)

RECURSIVE Shape(_, _, _)
\* the state of a container: its kind, length and keys, with the state of
\* each container it holds in place of that container's identity
Shape(h, o, fuel) ==
    [kind |-> h[o].kind, len |-> h[o].len, time |-> h[o].time,
     props |-> [k \in Keys |->
        LET x == h[o].props[k] IN
        IF x.t = "ref"
        THEN [t |-> "ref", v |-> 0,
              s |-> IF fuel = 0 THEN {} ELSE {Shape(h, x.v, fuel - 1)}]
        ELSE [t |-> x.t, v |-> x.v, s |-> {}]]]

\* the source holds no container of the target
Apart(h, c) == ReachableFrom(h, Root) \cap ReachableFrom(h, c) = {}

\* a second deepMerge of the same source leaves the target as the first did
SecondKeeps(h, c) ==
    LET again == deepMerge(h, Root, c, variant) IN
    /\ again.err = "none"
    /\ Shape(again.h, Root, MergeFuel) = Shape(h, Root, MergeFuel)

C29_ValueUntouched ==
    /\ [](sets = 0 => \A o \in Reach(heap) : heap[o].ext)
    /\ [][/\ lastOp'.op = "get" => heap' = heap
          /\ (internalSet(CandNewKey) /\ ~Rejects(options, CandNewKey)) =>
                 lastOp'.err = "none"]_vars

====
